---------------------------- MODULE Spec2Model ----------------------------
(***************************************************************************)
(* A model of garden.gauge (src/__init__.py): the file-name decoder        *)
(* get_fileconfig, the PNG size reader, the Needle scatter (rotation and   *)
(* drag) and the Gauge widget (construction, bounded values, needle and    *)
(* drag reactions).                                                        *)
(*                                                                         *)
(* Numbers.  Python floats are modelled as exact rationals <<n, d>> in     *)
(* lowest terms with d > 0; rounding error is not modelled.                *)
(* Strings.  A file name is a sequence of one-character strings.           *)
(***************************************************************************)
EXTENDS Integers, Sequences, FiniteSets, TLC

(***************************************************************************)
(* Bounds of the model.                                                    *)
(***************************************************************************)
MaxLen == 6        \* longest file name explored by the decoder specification
MaxValue == 2      \* dial start/end values range over 0..MaxValue
MaxTouches == 2    \* pointers of the needle specification
MaxTurn == 2       \* _set_rotation arguments range over 45 * (-MaxTurn..MaxTurn)

(***************************************************************************)
(* Exact rational arithmetic (the model of Python float arithmetic).       *)
(***************************************************************************)
Abs(n) == IF n < 0 THEN -n ELSE n

RECURSIVE Gcd(_, _)
Gcd(a, b) == IF b = 0 THEN a ELSE Gcd(b, a % b)

Norm(n, d) ==
    LET s == IF d < 0 THEN -1 ELSE 1
        g == Gcd(Abs(n), Abs(d))
    IN  <<(s * n) \div g, (s * d) \div g>>

R(n) == <<n, 1>>
RAdd(a, b) == Norm(a[1] * b[2] + b[1] * a[2], a[2] * b[2])
RNeg(a) == <<-a[1], a[2]>>
RSub(a, b) == RAdd(a, RNeg(b))
RMul(a, b) == Norm(a[1] * b[1], a[2] * b[2])
RDiv(a, b) == Norm(a[1] * b[2], a[2] * b[1])      \* b # 0
RLess(a, b) == a[1] * b[2] < b[1] * a[2]
RLeq(a, b) == a[1] * b[2] <= b[1] * a[2]
RZero == R(0)

(***************************************************************************)
(* Characters and strings.                                                 *)
(***************************************************************************)
DigitChars == <<"0", "1", "2", "3", "4", "5", "6", "7", "8", "9">>
IsDigit(c) == \E i \in 1..10 : DigitChars[i] = c
DigitVal(c) == (CHOOSE i \in 1..10 : DigitChars[i] = c) - 1

RECURSIVE StrNat(_)
StrNat(n) == IF n < 10 THEN <<DigitChars[n + 1]>>
             ELSE StrNat(n \div 10) \o <<DigitChars[(n % 10) + 1]>>

\* str(n) of a Python int
Str(n) == IF n < 0 THEN <<"-">> \o StrNat(-n) ELSE StrNat(n)

\* the largest index of c in s, 0 when absent (str.rfind, 1-based)
RFind(s, c) ==
    LET I == {i \in 1..Len(s) : s[i] = c}
    IN  IF I = {} THEN 0 ELSE CHOOSE i \in I : \A j \in I : j <= i

\* os.path.basename (posixpath): what follows the last "/"
Basename(p) == SubSeq(p, RFind(p, "/") + 1, Len(p))

\* os.path.splitext(p)[0] (genericpath._splitext): the last dot starts the
\* extension unless only dots precede it in the last path component
SplitextRoot(p) ==
    LET sepIndex == RFind(p, "/")
        dotIndex == RFind(p, ".")
    IN  IF dotIndex > sepIndex
           /\ \E k \in (sepIndex + 1)..(dotIndex - 1) : p[k] # "."
        THEN SubSeq(p, 1, dotIndex - 1)
        ELSE p

\* str.split(sep, maxsplit): at most maxsplit cuts, from the left
RECURSIVE Split(_, _, _)
Split(s, sep, maxsplit) ==
    LET I == {i \in 1..Len(s) : s[i] = sep}
    IN  IF maxsplit = 0 \/ I = {} THEN <<s>>
        ELSE LET i == CHOOSE k \in I : \A j \in I : k <= j
             IN  <<SubSeq(s, 1, i - 1)>>
                 \o Split(SubSeq(s, i + 1, Len(s)), sep, maxsplit - 1)

\* int(s) accepts an optional sign followed by one or more digits
IntBody(s) == IF Len(s) > 0 /\ s[1] \in {"-", "+"} THEN Tail(s) ELSE s
IntOk(s) == /\ Len(IntBody(s)) > 0
            /\ \A i \in 1..Len(IntBody(s)) : IsDigit(IntBody(s)[i])

RECURSIVE NatVal(_)
NatVal(s) == IF Len(s) = 0 THEN 0
             ELSE 10 * NatVal(SubSeq(s, 1, Len(s) - 1)) + DigitVal(s[Len(s)])

IntVal(s) == IF Len(s) > 0 /\ s[1] = "-" THEN -NatVal(IntBody(s))
             ELSE NatVal(IntBody(s))

(***************************************************************************)
(* get_fileconfig(filename): the two integers of the file's base name, or  *)
(* the exception the lookup or the conversion raises.                      *)
(***************************************************************************)
Ok(v) == [ok |-> TRUE, val |-> v, exc |-> "none"]
Raise(e) == [ok |-> FALSE, val |-> <<0, 0>>, exc |-> e]

SplitLimit == 3

\* get_fileconfig reading the tokens 0 and 1 for the tokens 1 and 2
get_fileconfig_shifted(filename) ==
    LET name == SplitextRoot(Basename(filename))
        parts == Split(name, "_", SplitLimit)
    IN  IF ~IntOk(parts[1]) THEN Raise("ValueError")
        ELSE IF Len(parts) < 2 THEN Raise("IndexError")
        ELSE IF ~IntOk(parts[2]) THEN Raise("ValueError")
        ELSE Ok(<<IntVal(parts[1]), IntVal(parts[2])>>)

get_fileconfig(filename) ==
    LET name == SplitextRoot(Basename(filename))
        parts == Split(name, "_", SplitLimit)
    IN  IF Len(parts) < 2 THEN Raise("IndexError")
        ELSE IF ~IntOk(parts[2]) THEN Raise("ValueError")
        ELSE IF Len(parts) < 3 THEN Raise("IndexError")
        ELSE IF ~IntOk(parts[3]) THEN Raise("ValueError")
        ELSE Ok(<<IntVal(parts[2]), IntVal(parts[3])>>)


(***************************************************************************)
(* The state.                                                              *)
(*   filename, result   the decoder's argument and what it returned        *)
(*   gauge              the Gauge object: its properties and attributes    *)
(*                      under the names of the source, with                *)
(*                        pc      "constructing" | "ready" | "failed"      *)
(*                        raised  the exception the last operation raised  *)
(*   needle             the Needle of the needle specification             *)
(*   touches            the pointers: down or not, the needles whose       *)
(*                      region the pointer-down position hit, grab_list    *)
(* Python's None is NoneObj; an attribute never assigned is UnsetAttr; a   *)
(* number never assigned is the empty tuple.                               *)
(***************************************************************************)
VARIABLES filename, result, gauge, needle, touches

vars == <<filename, result, gauge, needle, touches>>

NoneObj == [kind |-> "None"]
UnsetAttr == [kind |-> "Unset"]
UnsetNum == <<>>
Colors == {"white", "red"}
TouchIds == 1..MaxTouches
\* the one pointer of the Gauge specification
Mouse == CHOOSE t \in TouchIds : \A u \in TouchIds : t <= u

(***************************************************************************)
(* Needle (a Scatter).  rotation is self._rotation; applied is the angle   *)
(* of the scatter's transform, in degrees counter-clockwise: the rotations *)
(* apply_transform composes all turn about the same local anchor, so the   *)
(* transform is the rotation by the sum of their angles.                   *)
(***************************************************************************)
Needle__init__(file_needle, color, anchor, do_drag) ==
    LET a == get_fileconfig(file_needle)
    IN  IF ~a.ok THEN Raise(a.exc)
        ELSE Ok([kind |-> "Needle",
                 anchor |-> a.val,
                 x |-> anchor[1] - a.val[1],
                 y |-> anchor[2] - a.val[2],
                 rotation |-> RZero,
                 applied |-> RZero,
                 do_drag |-> do_drag,
                 color |-> color,
                 dragged |-> RZero])

\* _set_rotation turning by the new angle, not by its change
_set_rotation_absolute(n, value) ==
    [n EXCEPT !.rotation = value, !.applied = RAdd(n.applied, value)]

\* Needle._set_rotation(value): rotate by -angle_change about the anchor
_set_rotation(n, value) ==
    LET angle_change == RSub(n.rotation, value)
    IN  [n EXCEPT !.rotation = value,
                  !.applied = RAdd(n.applied, RNeg(angle_change))]

\* Needle.setcolor(color)
setcolor(n, color) == [n EXCEPT !.color = color]

\* A pointer position is its bearing from the needle's pivot in the parent's
\* frame (degrees clockwise from "up"), or on the pivot itself.
Bearings == {0, 90, 180, -90}
Positions == [at_anchor : {FALSE}, bearing : Bearings]
             \cup {[at_anchor |-> TRUE, bearing |-> 0]}

RECURSIVE Wrap(_)
Wrap(a) == IF RLess(R(180), a) THEN Wrap(RSub(a, R(360)))
           ELSE IF RLess(a, R(-180)) THEN Wrap(RAdd(a, R(360)))
           ELSE a

\* atan2(rx, ry) in degrees for the local vector (rx, ry) = to_local(pos) -
\* anchor.  to_local undoes the scatter's transform, so the local bearing is
\* the parent bearing plus the applied rotation.  atan2 is 0 at (0, 0), and
\* straight down it is +180 or -180 with the sign of the zero rx.
LocalBearings(n, pos) ==
    IF pos.at_anchor THEN {RZero}
    ELSE LET b == Wrap(RAdd(R(pos.bearing), n.applied))
         IN  IF b \in {R(180), R(-180)} THEN {R(180), R(-180)} ELSE {b}

\* on_touch_move past its guard: Vector(rx, ry).angle((0, 1)), clamped, and
\* the value assigned to dragged
DragLimit == 90

\* the clamp without its lower limit
DraggedFor_upper_only(localBearing) ==
    LET angle == RNeg(localBearing)
        a1 == IF RLess(R(DragLimit), angle) THEN R(DragLimit) ELSE angle
    IN  RNeg(a1)

DraggedFor(localBearing) ==
    LET angle == RNeg(localBearing)
        a1 == IF RLess(R(DragLimit), angle) THEN R(DragLimit) ELSE angle
        a2 == IF RLess(a1, R(-DragLimit)) THEN R(-DragLimit) ELSE a1
    IN  RNeg(a2)

\* Needle.on_touch_down: TRUE when the needle grabs the touch (otherwise the
\* Scatter it extends, with every interaction switched off, declines it)
on_touch_down(n, hit) == n.do_drag = "True" /\ hit

\* on_touch_move without its guard
on_touch_move_any(n, id, grab_current, lb) ==
    [n EXCEPT !.dragged = DraggedFor(lb)]

\* Needle.on_touch_move of the needle n, known to touches as id, for a
\* pointer whose local bearing is lb: the needle after the handler
on_touch_move(n, id, grab_current, lb) ==
    IF grab_current # id THEN n
    ELSE [n EXCEPT !.dragged = DraggedFor(lb)]

\* Needle.on_touch_up: the touch's grab list after the handler
on_touch_up(id, grab_current, grab_list) ==
    IF grab_current = id THEN grab_list \ {id} ELSE grab_list

(***************************************************************************)
(* kivy.properties.BoundedNumericProperty.set with errorvalue = 0: the     *)
(* value is checked against min and max; a rejected value is replaced by   *)
(* the error value, which is checked in turn.                              *)
(***************************************************************************)
errorvalue == 0
DefaultMax == 100

InBound(b, x) == RLeq(b.min, x) /\ RLeq(x, b.max)

BoundedSet(b, x) ==
    IF InBound(b, x) THEN Ok(x)
    ELSE IF InBound(b, R(errorvalue)) THEN Ok(R(errorvalue))
    ELSE Raise("ValueError")

(***************************************************************************)
(* "[b]{0:.0f}[/b]".format(value): the value rounded half-to-even to an    *)
(* integer, printed with its sign ("-0" for a negative value rounding to   *)
(* zero).  The text is modelled by the pair <<sign, digits>>.              *)
(***************************************************************************)
RoundHalfEven(a) ==
    LET n == Abs(a[1])
        q == n \div a[2]
        r2 == 2 * (n % a[2])
    IN  IF r2 > a[2] \/ (r2 = a[2] /\ q % 2 = 1) THEN q + 1 ELSE q

label_format(value) ==
    <<IF value[1] < 0 THEN "-" ELSE "", StrNat(RoundHalfEven(value))>>

(***************************************************************************)
(* The Angle/Value mapping of Gauge._turn_i and Gauge._dragged_i.          *)
(***************************************************************************)
\* angleFor with the value's offset added, not subtracted
angleFor_added(self, value) ==
    RAdd(RNeg(R(self.angles[1])),
         RMul(RSub(value, self.gauge_min), self.unit))

angleFor(self, value) ==
    RSub(RNeg(R(self.angles[1])),
         RMul(RSub(value, self.gauge_min), self.unit))

valueFromDrag(self, a) == RDiv(a, self.unit)

(***************************************************************************)
(* Gauge: the reactions bound to its properties.  Each takes the object    *)
(* and gives the object after the handler.                                 *)
(***************************************************************************)
_turn_1(self) ==
    IF self._needle_1 = UnsetAttr
    THEN [self EXCEPT !.raised = "AttributeError"]
    ELSE IF self._needle_1 # NoneObj
    THEN [self EXCEPT
            !._needle_1 = _set_rotation(@, angleFor(self, self.value_1)),
            !._glab_1 = [@ EXCEPT !.text = label_format(self.value_1)]]
    ELSE self

\* _turn_2 reading value_1
_turn_2_value_1(self) ==
    IF self._needle_2 = UnsetAttr
    THEN [self EXCEPT !.raised = "AttributeError"]
    ELSE IF self._needle_2 # NoneObj
    THEN [self EXCEPT
            !._needle_2 = _set_rotation(@, angleFor(self, self.value_1)),
            !._glab_2 = [@ EXCEPT !.text = label_format(self.value_1)]]
    ELSE self

_turn_2(self) ==
    IF self._needle_2 = UnsetAttr
    THEN [self EXCEPT !.raised = "AttributeError"]
    ELSE IF self._needle_2 # NoneObj
    THEN [self EXCEPT
            !._needle_2 = _set_rotation(@, angleFor(self, self.value_2)),
            !._glab_2 = [@ EXCEPT !.text = label_format(self.value_2)]]
    ELSE self

\* _dragged_1 feeding the drag result back into value_1
_dragged_1_feedback(self) ==
    IF self.unit = RZero
    THEN [self EXCEPT !.raised = "ZeroDivisionError"]
    ELSE LET d == valueFromDrag(self, self._needle_1.dragged)
         IN  _turn_1([self EXCEPT !.dragged_1 = d, !.value_1 = d])

_dragged_1(self) ==
    IF self.unit = RZero
    THEN [self EXCEPT !.raised = "ZeroDivisionError"]
    ELSE [self EXCEPT
            !.dragged_1 = valueFromDrag(self, self._needle_1.dragged)]

_dragged_2(self) ==
    IF self.unit = RZero
    THEN [self EXCEPT !.raised = "ZeroDivisionError"]
    ELSE [self EXCEPT
            !.dragged_2 = valueFromDrag(self, self._needle_2.dragged)]

_needle_color_1(self) ==
    IF self._needle_1 # NoneObj
    THEN [self EXCEPT !._needle_1 = setcolor(@, self.needle_1_color)]
    ELSE self

_needle_color_2(self) ==
    IF self._needle_2 # NoneObj
    THEN [self EXCEPT !._needle_2 = setcolor(@, self.needle_2_color)]
    ELSE self

(***************************************************************************)
(* The asset directory.  A needle type is the string and whether it is the *)
(* very object of the literal "None" the source compares it to with `is`   *)
(* (two equal strings need not be the same object).                        *)
(***************************************************************************)
Dir == <<"R", "/">>
PngExt == <<".", "p", "n", "g">>
FileName(prefix, a, b) ==
    Dir \o prefix \o <<"_">> \o Str(a) \o <<"_">> \o Str(b) \o PngExt

FondName == <<"f", "o", "n", "d">>
BandeauStd == <<"b", "a", "n", "d", "e", "a", "u", "S", "t", "d">>
Cadran == <<"c", "a", "d", "r", "a", "n">>
AiguilleStd == <<"a", "i", "g", "u", "i", "l", "l", "e", "S", "t", "d">>

FrontAngles == {<<0, 90>>, <<90, 0>>, <<0, 0>>}
DialValues == 0..MaxValue
ValueInputs == {R(k) : k \in (-1)..(MaxValue + 1)}
KwValueInputs == {R(0), R(MaxValue)}
DoDragInputs == {"None", "True"}
NeedleTypes == {[text |-> "Std", literal |-> FALSE],
                [text |-> "None", literal |-> TRUE],
                [text |-> "None", literal |-> FALSE]}

FondFiles == {FileName(FondName, 1, 1),
              Dir \o FondName \o <<"_", "a", "b", "c">> \o PngExt}
FrontFile(sa, ea) == FileName(BandeauStd, sa, ea)
DialFile(da, de, sv, ev) == FileName(Cadran \o Str(da) \o Str(de), sv, ev)
NeedleFile == FileName(AiguilleStd, 2, 0)

\* glob.glob(prefix + "*.png") over the files `files`
Glob(files, prefix) ==
    {f \in files :
        /\ Len(f) >= Len(prefix) + Len(PngExt)
        /\ SubSeq(f, 1, Len(prefix)) = prefix
        /\ SubSeq(f, Len(f) - Len(PngExt) + 1, Len(f)) = PngExt}

\* glob of "aiguille" + type + "_*.png": the directory holds the Std needle
NeedleGlob(type) == IF type.text = "Std" THEN {NeedleFile} ELSE {}

\* s is "None"
IsNoneLiteral(s) == s.text = "None" /\ s.literal

(***************************************************************************)
(* Gauge.__init__, in the order of the source.  A stage that raises leaves *)
(* the object as it was at the raise, with pc = "failed".                  *)
(***************************************************************************)
ClassDefaults ==
    [pc |-> "constructing", raised |-> "none",
     needle_1_type |-> [text |-> "Std", literal |-> FALSE],
     needle_2_type |-> [text |-> "None", literal |-> TRUE],
     needle_1_color |-> "white", needle_2_color |-> "white",
     angles |-> <<>>, gauge_min |-> R(0), gauge_max |-> R(DefaultMax),
     unit |-> UnsetNum,
     value_1 |-> R(0), value_2 |-> R(0),
     bound_1 |-> [min |-> R(0), max |-> R(DefaultMax)],
     bound_2 |-> [min |-> R(0), max |-> R(DefaultMax)],
     dragged_1 |-> R(0), dragged_2 |-> R(0),
     _needle_1 |-> UnsetAttr, _needle_2 |-> UnsetAttr,
     _glab_1 |-> UnsetAttr, _glab_2 |-> UnsetAttr]

Failed(s, exc) == [s EXCEPT !.pc = "failed", !.raised = exc]

\* super().__init__(**kwargs): the keyword arguments set the properties,
\* the values against the class's bounds 0..100
InitProperties(s, kw) ==
    [s EXCEPT !.needle_1_type = kw.needle_1_type,
              !.needle_2_type = kw.needle_2_type,
              !.value_1 = BoundedSet(s.bound_1, kw.value_1).val,
              !.value_2 = BoundedSet(s.bound_2, kw.value_2).val]

\* the front's angles and the glob for the dial that carries them
DialPrefix(a) == Dir \o Cadran \o Str(a[1]) \o Str(a[2]) \o <<"_">>

InitAssets(s, kw) ==
    LET a == get_fileconfig(kw.file_front)
    IN  IF s.pc = "failed" THEN s
        ELSE IF ~a.ok THEN Failed(s, a.exc)
        ELSE IF Glob(kw.dials, DialPrefix(a.val)) = {}
        THEN Failed([s EXCEPT !.angles = a.val], "IndexError")
        ELSE [s EXCEPT !.angles = a.val]

\* InitScale with a unit of zero for a dial of zero span
InitScale_unchecked(s, kw) ==
    IF s.pc = "failed" THEN s
    ELSE
    LET file_dial == CHOOSE f \in Glob(kw.dials, DialPrefix(s.angles)) : TRUE
        ranges == get_fileconfig(file_dial)
    IN  IF ~ranges.ok THEN Failed(s, ranges.exc)
        ELSE [s EXCEPT
                !.gauge_min = R(ranges.val[1]),
                !.gauge_max = R(ranges.val[2]),
                !.bound_1 = [min |-> R(ranges.val[1]),
                             max |-> R(ranges.val[2])],
                !.bound_2 = [min |-> R(ranges.val[1]),
                             max |-> R(ranges.val[2])],
                !.unit = IF ranges.val[2] - ranges.val[1] = 0 THEN RZero
                         ELSE RDiv(R(s.angles[2] - s.angles[1]),
                                   R(ranges.val[2] - ranges.val[1]))]

\* the dial's range, the bounds of the two values, and unit
InitScale(s, kw) ==
    IF s.pc = "failed" THEN s
    ELSE
    LET file_dial == CHOOSE f \in Glob(kw.dials, DialPrefix(s.angles)) : TRUE
        ranges == get_fileconfig(file_dial)
    IN  IF ~ranges.ok THEN Failed(s, ranges.exc)
        ELSE
        LET s1 == [s EXCEPT
                     !.gauge_min = R(ranges.val[1]),
                     !.gauge_max = R(ranges.val[2]),
                     !.bound_1 = [min |-> R(ranges.val[1]),
                                  max |-> R(ranges.val[2])],
                     !.bound_2 = [min |-> R(ranges.val[1]),
                                  max |-> R(ranges.val[2])]]
        IN  IF ranges.val[2] - ranges.val[1] = 0
            THEN Failed(s1, "ZeroDivisionError")
            ELSE [s1 EXCEPT
                    !.unit = RDiv(R(s.angles[2] - s.angles[1]),
                                  R(ranges.val[2] - ranges.val[1]))]

\* the two labels
NewLabel == [kind |-> "Label", text |-> <<"", <<>>>>]

InitLabels(s) ==
    IF s.pc = "failed" THEN s
    ELSE [s EXCEPT
            !._glab_1 = IF ~IsNoneLiteral(s.needle_1_type)
                        THEN NewLabel ELSE NoneObj,
            !._glab_2 = IF ~IsNoneLiteral(s.needle_2_type)
                        THEN NewLabel ELSE NoneObj]

\* needle slot 1; its else branch assigns _needle_2
InitNeedle1(s, kw) ==
    IF s.pc = "failed" THEN s
    ELSE IF ~IsNoneLiteral(s.needle_1_type)
    THEN IF NeedleGlob(s.needle_1_type) = {} THEN Failed(s, "IndexError")
         ELSE
         LET file_needle == CHOOSE f \in NeedleGlob(s.needle_1_type) : TRUE
             anchor == get_fileconfig(kw.file_fond)
             n == Needle__init__(file_needle, s.needle_1_color, anchor.val,
                                 kw.do_drag_1)
         IN  IF ~anchor.ok THEN Failed(s, anchor.exc)
             ELSE IF ~n.ok THEN Failed(s, n.exc)
             ELSE [s EXCEPT !._needle_1 = n.val]
    ELSE [s EXCEPT !._needle_2 = NoneObj]

\* needle slot 2
InitNeedle2(s, kw) ==
    IF s.pc = "failed" THEN s
    ELSE IF ~IsNoneLiteral(s.needle_2_type)
    THEN IF NeedleGlob(s.needle_2_type) = {} THEN Failed(s, "IndexError")
         ELSE
         LET file_needle == CHOOSE f \in NeedleGlob(s.needle_2_type) : TRUE
             anchor == get_fileconfig(kw.file_fond)
             n == Needle__init__(file_needle, s.needle_2_color, anchor.val,
                                 kw.do_drag_2)
         IN  IF ~anchor.ok THEN Failed(s, anchor.exc)
             ELSE IF ~n.ok THEN Failed(s, n.exc)
             ELSE [s EXCEPT !._needle_2 = n.val]
    ELSE [s EXCEPT !._needle_2 = NoneObj]

\* the first reaction pass: self._turn_1(); self._turn_2()
InitTurn(s) ==
    IF s.pc = "failed" THEN s
    ELSE LET s1 == _turn_1(s)
         IN  IF s1.raised # "none" THEN Failed(s1, s1.raised)
             ELSE LET s2 == _turn_2(s1)
                  IN  IF s2.raised # "none" THEN Failed(s2, s2.raised)
                      ELSE [s2 EXCEPT !.pc = "ready"]

Gauge__init__(s, kw) ==
    InitTurn(InitNeedle2(InitNeedle1(InitLabels(
        InitScale(InitAssets(InitProperties(s, kw), kw), kw)), kw), kw))

(***************************************************************************)
(* Assignments to the Gauge's properties: kivy stores the value and calls  *)
(* the bound handler when the value changed.                               *)
(***************************************************************************)
set_value_1(self, x) ==
    IF x = self.value_1 THEN self
    ELSE LET r == BoundedSet(self.bound_1, x)
         IN  IF ~r.ok THEN [self EXCEPT !.raised = r.exc]
             ELSE _turn_1([self EXCEPT !.value_1 = r.val])

set_value_2(self, x) ==
    IF x = self.value_2 THEN self
    ELSE LET r == BoundedSet(self.bound_2, x)
         IN  IF ~r.ok THEN [self EXCEPT !.raised = r.exc]
             ELSE _turn_2([self EXCEPT !.value_2 = r.val])

set_needle_1_color(self, c) ==
    IF c = self.needle_1_color THEN self
    ELSE _needle_color_1([self EXCEPT !.needle_1_color = c])

set_needle_2_color(self, c) ==
    IF c = self.needle_2_color THEN self
    ELSE _needle_color_2([self EXCEPT !.needle_2_color = c])

(***************************************************************************)
(* Pointer events.  kivy sends an event down the widget tree with          *)
(* grab_current = None (0 here), then once to every widget of the touch's  *)
(* grab list with grab_current set to that widget.  In the tree the        *)
(* stencil's children are asked last-added first: needle 2, then needle 1, *)
(* and a pointer-down stops at the first handler that returns True.        *)
(***************************************************************************)
IsNeedle(n) == n.kind = "Needle"
NeedleIds(self) == {i \in {1, 2} :
                      IsNeedle(IF i = 1 THEN self._needle_1 ELSE self._needle_2)}

TouchUp == [down |-> FALSE, hits |-> {}, grab_list |-> {}]

\* the grab list after the pointer-down went down the tree
DispatchDown(self, hits) ==
    IF IsNeedle(self._needle_2) /\ on_touch_down(self._needle_2, 2 \in hits)
    THEN {2}
    ELSE IF IsNeedle(self._needle_1)
            /\ on_touch_down(self._needle_1, 1 \in hits)
    THEN {1}
    ELSE {}

\* Needle.on_touch_move of needle 1 / needle 2, with the reaction the Gauge
\* bound to its dragged property
NeedleMove1(self, grab_current, lb) ==
    IF ~IsNeedle(self._needle_1) THEN self
    ELSE LET n == on_touch_move(self._needle_1, 1, grab_current, lb)
         IN  IF n.dragged = self._needle_1.dragged THEN self
             ELSE _dragged_1([self EXCEPT !._needle_1 = n])

NeedleMove2(self, grab_current, lb) ==
    IF ~IsNeedle(self._needle_2) THEN self
    ELSE LET n == on_touch_move(self._needle_2, 2, grab_current, lb)
         IN  IF n.dragged = self._needle_2.dragged THEN self
             ELSE _dragged_2([self EXCEPT !._needle_2 = n])

\* one call of the handlers of the needles in `to`, needle 2 first
MovePass(self, to, grab_current, lb1, lb2) ==
    LET s2 == IF 2 \in to THEN NeedleMove2(self, grab_current, lb2) ELSE self
    IN  IF 1 \in to THEN NeedleMove1(s2, grab_current, lb1) ELSE s2

DispatchMove(self, grab_list, lb1, lb2) ==
    LET tree == MovePass(self, {1, 2}, 0, lb1, lb2)
        g2 == MovePass(tree, grab_list \cap {2}, 2, lb1, lb2)
    IN  MovePass(g2, grab_list \cap {1}, 1, lb1, lb2)

\* the grab list after the pointer-up: the tree pass leaves it, the pass
\* over the grab list has every grabbing needle release
DispatchUp(grab_list) ==
    LET tree == on_touch_up(1, 0, on_touch_up(2, 0, grab_list))
        g2 == IF 2 \in tree THEN on_touch_up(2, 2, tree) ELSE tree
    IN  IF 1 \in g2 THEN on_touch_up(1, 1, g2) ELSE g2

BearingsOf(n, pos) == IF IsNeedle(n) THEN LocalBearings(n, pos) ELSE {RZero}

Cleared(self) == [self EXCEPT !.raised = "none"]

(***************************************************************************)
(* The Gauge specification.                                                *)
(***************************************************************************)
IdleDecoder == /\ filename = <<>>
               /\ result = Raise("pending")

Init == /\ IdleDecoder
        /\ gauge = ClassDefaults
        /\ needle = NoneObj
        /\ touches = [t \in TouchIds |-> TouchUp]

Construct ==
    /\ gauge.pc = "constructing"
    /\ \E nt1 \in NeedleTypes, nt2 \in NeedleTypes,
          dd1 \in DoDragInputs, dd2 \in DoDragInputs,
          kv1 \in KwValueInputs, kv2 \in KwValueInputs,
          fa \in FrontAngles,
          sv \in DialValues, ev \in DialValues,
          fond \in FondFiles, swapped \in BOOLEAN :
        gauge' = Gauge__init__(gauge,
                    [needle_1_type |-> nt1, needle_2_type |-> nt2,
                     do_drag_1 |-> dd1, do_drag_2 |-> dd2,
                     value_1 |-> kv1, value_2 |-> kv2,
                     file_fond |-> fond,
                     file_front |-> FrontFile(fa[1], fa[2]),
                     dials |-> {IF swapped
                                THEN DialFile(fa[2], fa[1], sv, ev)
                                ELSE DialFile(fa[1], fa[2], sv, ev)}])
    /\ UNCHANGED <<filename, result, needle, touches>>

SetValue1 ==
    /\ gauge.pc = "ready"
    /\ \E x \in ValueInputs : gauge' = set_value_1(Cleared(gauge), x)
    /\ UNCHANGED <<filename, result, needle, touches>>

SetValue2 ==
    /\ gauge.pc = "ready"
    /\ \E x \in ValueInputs : gauge' = set_value_2(Cleared(gauge), x)
    /\ UNCHANGED <<filename, result, needle, touches>>

SetNeedleColor1 ==
    /\ gauge.pc = "ready"
    /\ \E c \in Colors : gauge' = set_needle_1_color(Cleared(gauge), c)
    /\ UNCHANGED <<filename, result, needle, touches>>

SetNeedleColor2 ==
    /\ gauge.pc = "ready"
    /\ \E c \in Colors : gauge' = set_needle_2_color(Cleared(gauge), c)
    /\ UNCHANGED <<filename, result, needle, touches>>

PointerDown ==
    /\ gauge.pc = "ready"
    /\ \E t \in {Mouse}, hits \in SUBSET NeedleIds(gauge) :
        /\ ~touches[t].down
        /\ touches' = [touches EXCEPT ![t] =
                         [down |-> TRUE, hits |-> hits,
                          grab_list |-> DispatchDown(gauge, hits)]]
    /\ gauge' = Cleared(gauge)
    /\ UNCHANGED <<filename, result, needle>>

PointerMove ==
    /\ gauge.pc = "ready"
    /\ \E t \in {Mouse}, pos \in Positions :
        /\ touches[t].down
        /\ \E lb1 \in BearingsOf(gauge._needle_1, pos),
              lb2 \in BearingsOf(gauge._needle_2, pos) :
             gauge' = DispatchMove(Cleared(gauge), touches[t].grab_list,
                                   lb1, lb2)
    /\ UNCHANGED <<filename, result, needle, touches>>

PointerUp ==
    /\ gauge.pc = "ready"
    /\ \E t \in {Mouse} :
        /\ touches[t].down
        /\ touches' = [touches EXCEPT ![t] =
                         [TouchUp EXCEPT
                            !.grab_list = DispatchUp(touches[t].grab_list)]]
    /\ gauge' = Cleared(gauge)
    /\ UNCHANGED <<filename, result, needle>>

Next == \/ Construct
        \/ SetValue1
        \/ SetValue2
        \/ SetNeedleColor1
        \/ SetNeedleColor2
        \/ PointerDown
        \/ PointerMove
        \/ PointerUp

Spec == Init /\ [][Next]_vars

(***************************************************************************)
(* The decoder specification: get_fileconfig on every file name of at most *)
(* MaxLen characters over Alphabet.                                        *)
(***************************************************************************)
Alphabet == {"_", ".", "/", "1", "-", "a"}
FileNames == UNION {[1..n -> Alphabet] : n \in 0..MaxLen}

InitDecoder == /\ filename \in FileNames
               /\ result = Raise("pending")
               /\ gauge = ClassDefaults
               /\ needle = NoneObj
               /\ touches = [t \in TouchIds |-> TouchUp]

Decode == /\ result.exc = "pending"
          /\ result' = get_fileconfig(filename)
          /\ UNCHANGED <<filename, gauge, needle, touches>>

NextDecoder == Decode

SpecDecoder == InitDecoder /\ [][NextDecoder]_vars

(***************************************************************************)
(* The needle specification: one Needle on its own, known to the touches   *)
(* as widget 1, under any calls of _set_rotation and setcolor and any      *)
(* pointer events of the pointers TouchIds.                                *)
(***************************************************************************)
TurnInputs == {R(45 * k) : k \in (-MaxTurn)..MaxTurn}

InitNeedle ==
    /\ IdleDecoder
    /\ gauge = ClassDefaults
    /\ \E dd \in DoDragInputs \cup {"False"} :
         needle = Needle__init__(NeedleFile, "white", <<1, 1>>, dd).val
    /\ touches = [t \in TouchIds |-> TouchUp]

Rotate ==
    /\ \E a \in TurnInputs : needle' = _set_rotation(needle, a)
    /\ UNCHANGED <<filename, result, gauge, touches>>

Tint ==
    /\ \E c \in Colors : needle' = setcolor(needle, c)
    /\ UNCHANGED <<filename, result, gauge, touches>>

NeedleDown ==
    /\ \E t \in TouchIds, hit \in BOOLEAN :
        /\ ~touches[t].down
        /\ touches' = [touches EXCEPT ![t] =
                         [down |-> TRUE,
                          hits |-> IF hit THEN {1} ELSE {},
                          grab_list |-> IF on_touch_down(needle, hit)
                                        THEN {1} ELSE {}]]
    /\ UNCHANGED <<filename, result, gauge, needle>>

NeedleMove ==
    /\ \E t \in TouchIds, pos \in Positions :
        /\ touches[t].down
        /\ \E lb \in LocalBearings(needle, pos) :
             LET tree == on_touch_move(needle, 1, 0, lb)
             IN  needle' = IF 1 \in touches[t].grab_list
                           THEN on_touch_move(tree, 1, 1, lb)
                           ELSE tree
    /\ UNCHANGED <<filename, result, gauge, touches>>

NeedleUp ==
    /\ \E t \in TouchIds :
        /\ touches[t].down
        /\ touches' = [touches EXCEPT ![t] =
                         [TouchUp EXCEPT
                            !.grab_list = DispatchUp(touches[t].grab_list)]]
    /\ UNCHANGED <<filename, result, gauge, needle>>

NextNeedle == \/ Rotate
              \/ Tint
              \/ NeedleDown
              \/ NeedleMove
              \/ NeedleUp

SpecNeedle == InitNeedle /\ [][NextNeedle]_vars

(***************************************************************************)
(* Properties.                                                             *)
(***************************************************************************)
Ready == gauge.pc = "ready"
DialRange == [min |-> gauge.gauge_min, max |-> gauge.gauge_max]

\* C1: in every state of a ready Gauge whose dial range is not empty,
\* value_1 and value_2 lie within [gauge_min, gauge_max], and no assignment
\* to them raises an error.
C1_ValuesWithinDialRange ==
    (Ready /\ RLeq(gauge.gauge_min, gauge.gauge_max)) =>
        /\ InBound(DialRange, gauge.value_1)
        /\ InBound(DialRange, gauge.value_2)
        /\ gauge.raised # "ValueError"

\* C2: in every state of a ready Gauge the stored rotation of each needle
\* that exists is angleFor of the slot's value.
C2_RotationIsAngleForValue ==
    Ready =>
      /\ IsNeedle(gauge._needle_1) =>
           gauge._needle_1.rotation = angleFor(gauge, gauge.value_1)
      /\ IsNeedle(gauge._needle_2) =>
           gauge._needle_2.rotation = angleFor(gauge, gauge.value_2)

C2_Witness ==
    /\ Ready
    /\ IsNeedle(gauge._needle_2)
    /\ gauge.value_1 # gauge.value_2
    /\ gauge._needle_1.rotation # gauge._needle_2.rotation
    /\ gauge._needle_2.rotation # RNeg(R(gauge.angles[1]))
    /\ gauge._needle_2.color = "red"
    /\ gauge._needle_1.dragged # RZero

\* C3: a slot disabled by the type name "None" leaves construction and the
\* slot's value reaction without error: no access to the slot's needle
\* fails, and in the ready Gauge the slot's needle is None.
C3_DisabledSlotIsHarmless ==
    /\ gauge.raised # "AttributeError"
    /\ (Ready /\ gauge.needle_1_type.text = "None") =>
           gauge._needle_1 = NoneObj
    /\ (Ready /\ gauge.needle_2_type.text = "None") =>
           gauge._needle_2 = NoneObj

\* C4: the mapper's round trip.  The values the round trip is tried on are
\* the halves within the dial's range.
MapperValues == {Norm(k, 2) : k \in (-2)..(2 * MaxValue + 2)}
RoundTrip(v) ==
    valueFromDrag(gauge, RAdd(angleFor(gauge, v), R(gauge.angles[1])))

\* C4 as claimed: valueFromDrag(angleFor(value) + start_angle) = value for
\* every value of the dial's range.
C4_RoundTripIsIdentity ==
    (Ready /\ gauge.unit # RZero) =>
       \A v \in MapperValues : InBound(DialRange, v) => RoundTrip(v) = v

\* C4 as amended: valueFromDrag(angleFor(value) + start_angle) is
\* gauge_min - value for every value of the dial's range, whenever unit is
\* not zero.
C4_RoundTripIsOffsetNegated ==
    (Ready /\ gauge.unit # RZero) =>
       \A v \in MapperValues :
          InBound(DialRange, v) => RoundTrip(v) = RSub(gauge.gauge_min, v)

C4_Witness ==
    /\ Ready
    /\ gauge.unit # RZero
    /\ gauge.gauge_min # RZero
    /\ InBound(DialRange, gauge.value_1)
    /\ gauge.value_1 # gauge.gauge_min
    /\ gauge._needle_1.rotation = angleFor(gauge, gauge.value_1)
    /\ RoundTrip(gauge.value_1) = RSub(gauge.gauge_min, gauge.value_1)
    /\ RoundTrip(gauge.value_1) # gauge.value_1

\* C5: after any calls of _set_rotation the angle applied to the needle's
\* transform, the sum of the deltas, is the stored _rotation: the angle of
\* the last call.
C5_AppliedIsLastAngle ==
    IsNeedle(needle) => needle.applied = needle.rotation

C5_Witness ==
    /\ IsNeedle(needle)
    /\ needle.rotation = R(-45 * MaxTurn)
    /\ needle.applied = needle.rotation
    /\ needle.dragged # RZero

\* C6: the dragged output of a Needle lies within [-90, 90] degrees.
C6_DraggedWithinLimit ==
    IsNeedle(needle) => /\ RLeq(R(-DragLimit), needle.dragged)
                        /\ RLeq(needle.dragged, R(DragLimit))

C6_Witness ==
    /\ IsNeedle(needle)
    /\ needle.dragged = R(-DragLimit)
    /\ needle.applied = R(45)
    /\ \E t \in TouchIds : 1 \in touches[t].grab_list

\* C7: the drag capture protocol, as a property of every step.  The needle
\* enters a pointer's grab list only at that pointer's pointer-down, when
\* the pointer-down hit it and drag is enabled; it stays there until that
\* pointer's pointer-up, which releases it; and dragged changes only in a
\* pointer-move of a pointer that holds the needle captured.
C7_Step ==
    /\ \A t \in TouchIds :
         /\ (1 \in touches'[t].grab_list /\ 1 \notin touches[t].grab_list) =>
               /\ ~touches[t].down /\ touches'[t].down
               /\ 1 \in touches'[t].hits
               /\ needle.do_drag = "True"
         /\ (1 \in touches[t].grab_list /\ 1 \notin touches'[t].grab_list) =>
               touches[t].down /\ ~touches'[t].down
         /\ ~touches'[t].down => touches'[t].grab_list = {}
    /\ needle'.dragged # needle.dragged =>
         /\ touches' = touches
         /\ \E t \in TouchIds : touches[t].down /\ 1 \in touches[t].grab_list
    /\ needle.do_drag # "True" => needle'.dragged = needle.dragged

\* C7: every step of the needle keeps the drag capture protocol.
C7_DragCaptureProtocol == [][C7_Step]_vars

C7_Witness ==
    /\ IsNeedle(needle)
    /\ needle.dragged # RZero
    /\ ~touches[1].down
    /\ touches[MaxTouches].down
    /\ 1 \in touches[MaxTouches].grab_list

\* C8: the frame of the drag reaction.
NeedleDragged(n) == IF IsNeedle(n) THEN n.dragged ELSE RZero
NeedleRotation(n) == IF IsNeedle(n) THEN n.rotation ELSE RZero
LabelText(l) == IF l.kind = "Label" THEN l.text ELSE <<>>
Published1 == NeedleDragged(gauge'._needle_1) # NeedleDragged(gauge._needle_1)
Published2 == NeedleDragged(gauge'._needle_2) # NeedleDragged(gauge._needle_2)
DragFrame ==
    /\ gauge'.value_1 = gauge.value_1
    /\ gauge'.value_2 = gauge.value_2
    /\ NeedleRotation(gauge'._needle_1) = NeedleRotation(gauge._needle_1)
    /\ NeedleRotation(gauge'._needle_2) = NeedleRotation(gauge._needle_2)
    /\ LabelText(gauge'._glab_1) = LabelText(gauge._glab_1)
    /\ LabelText(gauge'._glab_2) = LabelText(gauge._glab_2)
    /\ gauge'.gauge_min = gauge.gauge_min
    /\ gauge'.gauge_max = gauge.gauge_max
    /\ gauge'.unit = gauge.unit

\* C8 as claimed: when needle i publishes a dragged angle the Gauge sets
\* dragged_i to the angle divided by unit, and leaves the values, the
\* rotations, the label texts, gauge_min, gauge_max and unit unchanged.
C8_Step ==
    /\ (Ready /\ Published1) =>
         /\ gauge.unit # RZero
         /\ gauge'.dragged_1 = RDiv(gauge'._needle_1.dragged, gauge.unit)
         /\ DragFrame
    /\ (Ready /\ Published2) =>
         /\ gauge.unit # RZero
         /\ gauge'.dragged_2 = RDiv(gauge'._needle_2.dragged, gauge.unit)
         /\ DragFrame

\* C8 as claimed, of every step of the Gauge.
C8_DragSetsQuotient == [][C8_Step]_vars

\* C8 as amended: when needle i publishes a dragged angle the values, the
\* rotations, the label texts, gauge_min, gauge_max and unit are unchanged;
\* if unit is not zero dragged_i becomes the angle divided by unit, and if
\* unit is zero the reaction raises ZeroDivisionError and dragged_i is
\* unchanged.
C8_AmendedSlot(published, now, next, angle) ==
    (Ready /\ published) =>
       /\ DragFrame
       /\ IF gauge.unit # RZero
          THEN next = RDiv(angle, gauge.unit) /\ gauge'.raised = "none"
          ELSE next = now /\ gauge'.raised = "ZeroDivisionError"

C8_AmendedStep ==
    /\ C8_AmendedSlot(Published1, gauge.dragged_1, gauge'.dragged_1,
                      NeedleDragged(gauge'._needle_1))
    /\ C8_AmendedSlot(Published2, gauge.dragged_2, gauge'.dragged_2,
                      NeedleDragged(gauge'._needle_2))

\* C8 as amended, of every step of the Gauge.
C8_DragReactionFrame == [][C8_AmendedStep]_vars

C8_Witness ==
    /\ Ready
    /\ IsNeedle(gauge._needle_2)
    /\ gauge.unit # RZero
    /\ gauge._needle_2.dragged = R(DragLimit)
    /\ gauge.dragged_2 = RDiv(R(DragLimit), gauge.unit)
    /\ gauge.value_2 # RZero
    /\ gauge.dragged_2 # gauge.value_2
    /\ gauge.dragged_1 = RZero

\* C9: get_fileconfig fails exactly when the base name has fewer than three
\* tokens between underscores or its token 1 or token 2 is no integer, and
\* otherwise returns the two integers; nothing else changes.
Underscores(s) == {i \in 1..Len(s) : s[i] = "_"}
NthUnderscore(s, k) ==
    CHOOSE i \in Underscores(s) :
        Cardinality({j \in Underscores(s) : j < i}) = k - 1
TokenEnd(s, k) ==
    IF Cardinality(Underscores(s)) >= k THEN NthUnderscore(s, k) - 1
    ELSE Len(s)
Token1(s) == SubSeq(s, NthUnderscore(s, 1) + 1, TokenEnd(s, 2))
Token2(s) == SubSeq(s, NthUnderscore(s, 2) + 1, TokenEnd(s, 3))

C9_DecodeContract ==
    result.exc # "pending" =>
      LET base == SplitextRoot(Basename(filename))
      IN  /\ gauge = ClassDefaults
          /\ IF \/ Cardinality(Underscores(base)) < 2
                \/ ~IntOk(Token1(base))
                \/ ~IntOk(Token2(base))
             THEN ~result.ok
             ELSE /\ result.ok
                  /\ result.val = <<IntVal(Token1(base)), IntVal(Token2(base))>>

C9_Witness ==
    /\ result.ok
    /\ result.val = <<-1, 1>>
    /\ \E i \in 1..Len(filename) : filename[i] = "/"

\* C10: a dial whose range has zero span makes construction fail with an
\* error: the Gauge is never ready, no needle exists and no unit is set.
C10_ZeroSpanFails ==
    (gauge.pc # "constructing" /\ gauge.gauge_min = gauge.gauge_max) =>
       /\ gauge.pc = "failed"
       /\ gauge.raised = "ZeroDivisionError"
       /\ gauge.unit = UnsetNum
       /\ ~IsNeedle(gauge._needle_1)
       /\ ~IsNeedle(gauge._needle_2)

C10_Witness ==
    /\ gauge.pc = "failed"
    /\ gauge.raised = "ZeroDivisionError"
    /\ gauge.gauge_min = gauge.gauge_max
    /\ gauge.gauge_min = R(1)
    /\ gauge.angles = <<0, 90>>

=============================================================================
